---- MODULE Spec2Model ----
(***************************************************************************)
(* Model of individual.py: a record store for plane races kept in an       *)
(* SQLite file with two tables, cities(race_id, race_name) and             *)
(* races(race_id, race_name, number_name, type_name).                      *)
(*                                                                         *)
(* The state is the committed content of the database file plus what the   *)
(* last call did: its arguments, where it failed, what select_allplanes    *)
(* returned, what display_plane printed, and how many connections the call *)
(* opened and did not close.  A storage failure (sqlite3.Error) may strike *)
(* at any statement of a call; the step at which it strikes is an input.   *)
(*                                                                         *)
(* A text is a sequence of one-character strings, so that the conversion   *)
(* SQLite applies to a column declared INTEGER can be computed.            *)
(***************************************************************************)
EXTENDS Integers, Sequences, FiniteSets, TLC

\* ------------------------------------------------------------------ bounds
MaxRows == 2

\* ------------------------------------------------------------------ inputs
RaceNames == { <<"A">>, <<"7">>, <<"0", "7">> }
Numbers == {1, 2}
PlaneTypes == {10}

CreateSteps == {"connect", "create_cities", "create_races"}
AddSteps == {"connect", "select", "insert_city", "insert_race", "commit"}
SelectSteps == {"connect", "execute", "fetchall"}
Plans == {"scan_races", "scan_cities"}

VARIABLES db, call, planes, out, unclosed

vars == <<db, call, planes, out, unclosed>>

\* --------------------------------------------------------- SQLite values
Text(s) == [type |-> "text", text |-> s, int |-> 0]
Integer(n) == [type |-> "integer", text |-> <<>>, int |-> n]

IsDigit(c) == c \in {"0", "1", "2", "3", "4", "5", "6", "7", "8", "9"}

DigitValue(c) ==
    CASE c = "0" -> 0 [] c = "1" -> 1 [] c = "2" -> 2 [] c = "3" -> 3
      [] c = "4" -> 4 [] c = "5" -> 5 [] c = "6" -> 6 [] c = "7" -> 7
      [] c = "8" -> 8 [] c = "9" -> 9

IsIntegerLiteral(s) == Len(s) > 0 /\ \A i \in 1..Len(s) : IsDigit(s[i])

RECURSIVE IntegerValue(_)
IntegerValue(s) ==
    IF s = <<>> THEN 0
    ELSE 10 * IntegerValue(SubSeq(s, 1, Len(s) - 1)) + DigitValue(s[Len(s)])

\* cities.race_name is declared INTEGER: a text that is a well-formed
\* integer literal is stored (and compared) as that integer.
IntegerAffinity(v) ==
    IF v.type = "text" /\ IsIntegerLiteral(v.text)
    THEN Integer(IntegerValue(v.text))
    ELSE v

\* ------------------------------------------------------------- the file
EmptyFile ==
    [tables |-> {}, cities |-> <<>>, races |-> <<>>,
     sequence |-> [cities |-> 0, races |-> 0]]

RECURSIVE SeqMax(_)
SeqMax(ids) ==
    IF ids = <<>> THEN 0
    ELSE LET m == SeqMax(Tail(ids)) IN IF Head(ids) > m THEN Head(ids) ELSE m

RowIds(rows) == [i \in 1..Len(rows) |-> rows[i].race_id]

\* INTEGER PRIMARY KEY AUTOINCREMENT: one more than the largest rowid the
\* table has ever held (sqlite_sequence) or holds now.
NextRowidReuse(rows, seqval) == 1
NextRowid(rows, seqval) ==
    LET m == SeqMax(RowIds(rows)) IN (IF seqval > m THEN seqval ELSE m) + 1

\* CREATE TABLE IF NOT EXISTS <name>
CreateTableDropFirst(d, name) ==
    [d EXCEPT !.tables = @ \cup {name}, ![name] = <<>>]
CreateTable(d, name) ==
    IF name \in d.tables THEN d
    ELSE [d EXCEPT !.tables = @ \cup {name}, ![name] = <<>>]

\* SELECT race_id FROM cities WHERE race_name = ? ; fetchone()
\* <<>> stands for None, <<id>> for the first matching row.  The parameter
\* is compared under the column's INTEGER affinity.
SelectCity(d, race) ==
    LET key == IntegerAffinity(Text(race))
        hits == {i \in 1..Len(d.cities) : d.cities[i].race_name = key}
    IN IF hits = {} THEN <<>>
       ELSE <<d.cities[CHOOSE i \in hits : \A j \in hits : i <= j].race_id>>

\* INSERT INTO cities (race_name) VALUES (?)
InsertCity(d, race) ==
    LET id == NextRowid(d.cities, d.sequence.cities)
    IN [d EXCEPT !.cities = Append(@, [race_id |-> id,
                                       race_name |-> IntegerAffinity(Text(race))]),
                 !.sequence.cities = id]

\* INSERT INTO races (race_name, number_name, type_name) VALUES (?, ?, ?)
\* races.race_name is declared TEXT, so the str parameter is stored as given.
InsertRace(d, race, number, type) ==
    LET id == NextRowid(d.races, d.sequence.races)
    IN [d EXCEPT !.races = Append(@, [race_id |-> id,
                                      race_name |-> Text(race),
                                      number_name |-> number,
                                      type_name |-> type]),
                 !.sequence.races = id]

\* ------------------------------------------------------------- create_db
\* Each CREATE TABLE runs outside a transaction and is committed on its own.
\* The FOREIGN KEY clause is not enforced (foreign_keys is off by default).
\* The connection is closed on the success path only.
CreateDbRun(d, fail) ==
    IF fail = "connect" THEN [db |-> d, error |-> "connect", unclosed |-> 0]
    ELSE IF fail = "create_cities"
    THEN [db |-> d, error |-> "create_cities", unclosed |-> 1]
    ELSE LET d1 == CreateTable(d, "cities") IN
         IF fail = "create_races"
         THEN [db |-> d1, error |-> "create_races", unclosed |-> 1]
         ELSE [db |-> CreateTable(d1, "races"), error |-> "none", unclosed |-> 0]

\* ------------------------------------------------------------- add_plane
\* What the file holds when add_plane returns: the transaction's content if
\* conn.commit() was reached and succeeded, the content before the call if not.
CommittedEachStatement(d, tx, error) == tx
Committed(d, tx, error) == IF error = "none" THEN tx ELSE d

AddPlaneResult(d, tx, row, error) ==
    [db |-> Committed(d, tx, error), error |-> error, found |-> row # <<>>,
     unclosed |-> IF error \in {"none", "connect"} THEN 0 ELSE 1]

\* A statement fails when a failure is injected at it, or when the table it
\* names does not exist (sqlite3.OperationalError: no such table).
AddPlaneRun(d, race, number, type, fail) ==
    IF fail = "connect" THEN AddPlaneResult(d, d, <<>>, "connect")
    ELSE IF fail = "select" \/ "cities" \notin d.tables
    THEN AddPlaneResult(d, d, <<>>, "select")
    ELSE LET row == SelectCity(d, race) IN
         IF row = <<>> /\ fail = "insert_city"
         THEN AddPlaneResult(d, d, row, "insert_city")
         ELSE LET tx1 == IF row = <<>> THEN InsertCity(d, race) ELSE d IN
              IF fail = "insert_race" \/ "races" \notin d.tables
              THEN AddPlaneResult(d, tx1, row, "insert_race")
              ELSE LET tx2 == InsertRace(tx1, race, number, type) IN
                   IF fail = "commit"
                   THEN AddPlaneResult(d, tx2, row, "commit")
                   ELSE AddPlaneResult(d, tx2, row, "none")

\* ------------------------------------------------------ select_allplanes
\* INNER JOIN cities ON cities.race_id = races.race_id
JoinOn(c, r) == c.race_id = r.race_id

RECURSIVE InnerLoop(_, _, _)
InnerLoop(o, inner, plan) ==
    IF inner = <<>> THEN <<>>
    ELSE LET i == Head(inner)
             r == IF plan = "scan_races" THEN o ELSE i
             c == IF plan = "scan_races" THEN i ELSE o
         IN (IF JoinOn(c, r) THEN <<r>> ELSE <<>>)
                \o InnerLoop(o, Tail(inner), plan)

RECURSIVE OuterLoop(_, _, _)
OuterLoop(outer, inner, plan) ==
    IF outer = <<>> THEN <<>>
    ELSE InnerLoop(Head(outer), inner, plan) \o OuterLoop(Tail(outer), inner, plan)

\* The rows of races that join a row of cities, in the order the scan of the
\* outer table (in rowid order) produces them; there is no ORDER BY.
JoinDescending(d, plan) ==
    LET rows == IF plan = "scan_races" THEN OuterLoop(d.races, d.cities, plan)
                ELSE OuterLoop(d.cities, d.races, plan)
    IN [i \in 1..Len(rows) |-> rows[Len(rows) + 1 - i]]
Join(d, plan) ==
    IF plan = "scan_races" THEN OuterLoop(d.races, d.cities, plan)
    ELSE OuterLoop(d.cities, d.races, plan)

RowToDict(row) ==
    [race |-> row.race_name, number |-> row.number_name, type |-> row.type_name]

\* The value select_allplanes returns: the fetched rows as dicts, or [] from
\* the except branch.
SelectReturnFetched(rows, error) == [i \in 1..Len(rows) |-> RowToDict(rows[i])]
SelectReturn(rows, error) ==
    IF error = "none" THEN [i \in 1..Len(rows) |-> RowToDict(rows[i])] ELSE <<>>

SelectAllPlanesRun(d, plan, fail) ==
    IF fail = "connect"
    THEN [planes |-> SelectReturn(<<>>, "connect"), error |-> "connect", unclosed |-> 0]
    ELSE IF fail = "execute" \/ {"cities", "races"} \ d.tables # {}
    THEN [planes |-> SelectReturn(<<>>, "execute"), error |-> "execute", unclosed |-> 1]
    ELSE LET rows == Join(d, plan) IN
         IF fail = "fetchall"
         THEN [planes |-> SelectReturn(rows, "fetchall"), error |-> "fetchall",
               unclosed |-> 1]
         ELSE [planes |-> SelectReturn(rows, "none"), error |-> "none", unclosed |-> 0]

\* --------------------------------------------------------- display_plane
Line(kind, no, row) ==
    [kind |-> kind, no |-> no, race |-> row.race, number |-> row.number,
     type |-> row.type]

NoRow == [race |-> Text(<<>>), number |-> 0, type |-> 0]

RECURSIVE TableRows(_, _)
TableRows(staff, idx) ==
    IF staff = <<>> THEN <<>>
    ELSE <<Line("row", idx, Head(staff)), Line("line", 0, NoRow)>>
             \o TableRows(Tail(staff), idx + 1)

\* The lines printed, or the message logged when the list is empty.
DisplayPlane(staff) ==
    IF staff # <<>>
    THEN [printed |-> <<Line("line", 0, NoRow), Line("header", 0, NoRow),
                        Line("line", 0, NoRow)>> \o TableRows(staff, 1),
          logged |-> <<>>]
    ELSE [printed |-> <<>>, logged |-> <<"The flight list is empty.">>]

NoOutput == [printed |-> <<>>, logged |-> <<>>]

\* ------------------------------------------------------------ the calls
Call(op, race, number, type, create, add, select, found) ==
    [op |-> op, race |-> race, number |-> number, type |-> type,
     create |-> create, add |-> add, select |-> select, found |-> found]

Init ==
    /\ db = EmptyFile
    /\ call = Call("none", <<>>, 0, 0, "n/a", "n/a", "n/a", FALSE)
    /\ planes = <<>>
    /\ out = NoOutput
    /\ unclosed = 0

CreateDb ==
    \E fail \in CreateSteps \cup {"none"} :
        LET c == CreateDbRun(db, fail) IN
        /\ db' = c.db
        /\ call' = Call("create_db", <<>>, 0, 0, c.error, "n/a", "n/a", FALSE)
        /\ planes' = <<>>
        /\ out' = NoOutput
        /\ unclosed' = c.unclosed

AddPlane ==
    \E race \in RaceNames, number \in Numbers, type \in PlaneTypes,
       fail \in AddSteps \cup {"none"} :
        LET a == AddPlaneRun(db, race, number, type, fail) IN
        /\ Len(db.races) < MaxRows
        /\ db' = a.db
        /\ call' = Call("add_plane", race, number, type, "n/a", a.error, "n/a", a.found)
        /\ planes' = <<>>
        /\ out' = NoOutput
        /\ unclosed' = a.unclosed

SelectAllPlanes ==
    \E plan \in Plans, fail \in SelectSteps \cup {"none"} :
        LET s == SelectAllPlanesRun(db, plan, fail) IN
        /\ db' = db
        /\ call' = Call("select_allplanes", <<>>, 0, 0, "n/a", "n/a", s.error, FALSE)
        /\ planes' = s.planes
        /\ out' = NoOutput
        /\ unclosed' = s.unclosed

\* main(["add", ...]): create_db, then add_plane
MainAdd ==
    \E race \in RaceNames, number \in Numbers, type \in PlaneTypes,
       cfail \in CreateSteps \cup {"none"}, fail \in AddSteps \cup {"none"} :
        LET c == CreateDbRun(db, cfail)
            a == AddPlaneRun(c.db, race, number, type, fail)
        IN
        /\ Len(db.races) < MaxRows
        /\ db' = a.db
        /\ call' = Call("main add", race, number, type, c.error, a.error, "n/a", a.found)
        /\ planes' = <<>>
        /\ out' = NoOutput
        /\ unclosed' = c.unclosed + a.unclosed

\* main(["display"]): create_db, then display_plane(select_allplanes(...))
MainDisplay ==
    \E plan \in Plans, cfail \in CreateSteps \cup {"none"},
       fail \in SelectSteps \cup {"none"} :
        LET c == CreateDbRun(db, cfail)
            s == SelectAllPlanesRun(c.db, plan, fail)
        IN
        /\ db' = c.db
        /\ call' = Call("main display", <<>>, 0, 0, c.error, "n/a", s.error, FALSE)
        /\ planes' = s.planes
        /\ out' = DisplayPlane(s.planes)
        /\ unclosed' = c.unclosed + s.unclosed

\* main(["select"]): create_db only; no branch handles the command
MainSelect ==
    \E cfail \in CreateSteps \cup {"none"} :
        LET c == CreateDbRun(db, cfail) IN
        /\ db' = c.db
        /\ call' = Call("main select", <<>>, 0, 0, c.error, "n/a", "n/a", FALSE)
        /\ planes' = <<>>
        /\ out' = NoOutput
        /\ unclosed' = c.unclosed

Next ==
    \/ CreateDb
    \/ AddPlane
    \/ SelectAllPlanes
    \/ MainAdd
    \/ MainDisplay
    \/ MainSelect

Spec == Init /\ [][Next]_vars

\* ============================================================ properties
Dicts(rows) == [i \in 1..Len(rows) |-> RowToDict(rows[i])]

Rows(table) == {table[i] : i \in 1..Len(table)}

Listed == call.select = "none"

AddSucceeded(c) == c.add = "none"

AddFailed(c) == c.add \notin {"n/a", "none"}

SelectFailed(c) == c.select \notin {"n/a", "none"}

RECURSIVE IsSubsequence(_, _)
IsSubsequence(s, t) ==
    IF s = <<>> THEN TRUE
    ELSE IF t = <<>> THEN FALSE
    ELSE IF Head(s) = Head(t) THEN IsSubsequence(Tail(s), Tail(t))
    ELSE IsSubsequence(s, Tail(t))

\* The store a successful create_db leaves when no race was ever added.
FreshStore == CreateDbRun(EmptyFile, "none").db

\* C1: a list returned by a successful select_allplanes holds a record for
\* every race row committed by the successful adds, and as many records as
\* there are such rows.
C1_ListHoldsEveryRace ==
    Listed =>
        /\ \A i \in 1..Len(db.races) :
               \E j \in 1..Len(planes) : planes[j] = RowToDict(db.races[i])
        /\ Len(planes) = Len(db.races)

\* C2: the records of a returned list appear in the relative order in which
\* their rows were added: the list is a subsequence of the race rows taken in
\* insertion order.
C2_ListInInsertionOrder ==
    Listed => IsSubsequence(planes, Dicts(db.races))

C2_Witness ==
    /\ Listed
    /\ Len(planes) >= 2
    /\ planes[1] # planes[2]

\* C3: every race row's destination name is the name of exactly one row of
\* cities.
C3_OneCityPerRaceName ==
    \A i \in 1..Len(db.races) :
        Cardinality({j \in 1..Len(db.cities) :
                        db.cities[j].race_name = db.races[i].race_name}) = 1

\* C4: a successful add_plane(d, n, t) appends exactly one row (d, n, t) to
\* races, appends exactly one row named d to cities if no row of cities was
\* named d before the call and none otherwise, and leaves the earlier rows as
\* they were.
C4_AddEffect ==
    [][AddSucceeded(call') =>
         LET d == Text(call'.race)
             known == \E j \in 1..Len(db.cities) : db.cities[j].race_name = d
         IN /\ Len(db'.races) = Len(db.races) + 1
            /\ SubSeq(db'.races, 1, Len(db.races)) = db.races
            /\ RowToDict(db'.races[Len(db'.races)])
                   = [race |-> d, number |-> call'.number, type |-> call'.type]
            /\ IF known THEN db'.cities = db.cities
               ELSE /\ Len(db'.cities) = Len(db.cities) + 1
                    /\ SubSeq(db'.cities, 1, Len(db.cities)) = db.cities
                    /\ db'.cities[Len(db'.cities)].race_name = d
    ]_vars

\* C5: when add_plane fails at any step, the committed rows of both tables
\* (and the rowid counters) are what they were before the call.  Every
\* sqlite3.Error is caught in add_plane, so the call returns.
C5_FailedAddChangesNothing ==
    [][AddFailed(call') =>
         /\ db'.cities = db.cities
         /\ db'.races = db.races
         /\ db'.sequence = db.sequence
    ]_vars

C5_Witness ==
    /\ call.add = "insert_race"
    /\ ~call.found
    /\ "races" \in db.tables

\* C6: a successful create_db leaves both tables in place, and on a store
\* that already had both it changes nothing (the calls taken are those in
\* which create_db is the only writer).
C6_CreateDbIdempotent ==
    [][(call'.create = "none" /\ call'.add = "n/a") =>
         /\ db'.tables = {"cities", "races"}
         /\ ({"cities", "races"} \subseteq db.tables => db' = db)
    ]_vars

C6_Witness ==
    /\ call.op = "create_db"
    /\ call.create = "none"
    /\ Len(db.races) >= 2
    /\ Len(db.cities) >= 1

\* C7: no call returns with a connection it opened still open.
C7_ConnectionClosedOnReturn == unclosed = 0

\* C8: a row of either table is there, with the same id and content, after
\* every later call, and no two rows of a table have the same id.
UniqueIds(table) ==
    \A i, j \in 1..Len(table) : table[i].race_id = table[j].race_id => i = j

C8_RowsPermanent ==
    [][/\ Rows(db.cities) \subseteq Rows(db'.cities)
       /\ Rows(db.races) \subseteq Rows(db'.races)
       /\ UniqueIds(db'.cities)
       /\ UniqueIds(db'.races)
    ]_vars

C8_Witness ==
    /\ call.op = "main display"
    /\ Len(db.cities) >= 2
    /\ Len(db.races) >= 2

\* C9: when select_allplanes fails it returns the empty list, the value it
\* returns for a store without races, and the rows of the store are what they
\* were.
C9_FailedSelectReturnsEmpty ==
    [][SelectFailed(call') =>
         /\ planes' = <<>>
         /\ \A plan \in Plans :
                planes' = SelectAllPlanesRun(FreshStore, plan, "none").planes
         /\ db'.cities = db.cities
         /\ db'.races = db.races
         /\ call'.op = "select_allplanes" => db' = db
    ]_vars

C9_Witness ==
    /\ call.select = "fetchall"
    /\ Len(db.races) >= 1
    /\ Len(db.cities) >= 1

\* C10: a returned list holds exactly the race rows whose id is the id of a
\* row of cities; with m the number of distinct destination names the adds
\* used, that is the first m race rows.
DistinctNames == {db.races[i].race_name : i \in 1..Len(db.races)}

C10_ListIsFirstMRaces ==
    Listed =>
        /\ \A i \in 1..Len(db.races) :
               i <= Len(planes)
                   <=> \E c \in Rows(db.cities) : c.race_id = db.races[i].race_id
        /\ planes = Dicts(SubSeq(db.races, 1, Cardinality(DistinctNames)))

====
